---- MODULE Spec2Model ----
(***************************************************************************)
(* voxel-rs client physics core: the AABB collision engine                 *)
(* (src/src/physics/aabb.rs), the player kinematic state                   *)
(* (src/common/src/physics/player.rs) and the tick driver                  *)
(* (src/client/src/singleplayer.rs).                                       *)
(*                                                                         *)
(* f64 coordinates are modelled in fixed point: one block is U units, so   *)
(* the 0.01 tolerance of the binary search is Res units.  A division that  *)
(* is inexact in fixed point truncates toward zero.  A sum or difference   *)
(* of coordinates is rounded as a float of Mantissa significant bits is:   *)
(* exact below 2^Mantissa units, to the nearest representable value (ties  *)
(* to even) above.                                                         *)
(***************************************************************************)
EXTENDS Integers, Sequences, FiniteSets, TLC

VARIABLES
    pc,        \* position of the driver: which step of new / update runs next
    queue,     \* events client.receive_event has yet to return, oldest first
    chunks,    \* World.chunks: ChunkCoordinate -> block data of the chunk
    light,     \* World.light: the coordinates that have a LightChunk
    aabb,      \* the player's box (PhysicsPlayer.aabb)
    baseline,  \* ClientPhysicsSimulation's last stored ServerState
    render_distance, \* SinglePlayer.render_distance
    handshake, \* which of data / player_id SinglePlayer::new has obtained
    received,  \* the last event receive_event returned, and what became of it
    call,      \* record of the last move_check_collision call (scenario specs)
    tick       \* locals and history of the running / last update call

vars == <<pc, queue, chunks, light, aabb, baseline, render_distance, handshake,
          received, call, tick>>

-----------------------------------------------------------------------------
(* Fixed point *)

\* units per 0.01 block (resolution of the model)
Res == 96
\* units per block
U == 100 * Res
\* 0.01, the gap at which the binary search stops (aabb.rs:118)
Tolerance == U \div 100

\* significant bits of a coordinate (53 in an f64)
Mantissa == 19
\* magnitudes from here on are no longer spaced one unit apart
Binade == 2 ^ Mantissa

Abs(v) == IF v < 0 THEN -v ELSE v
\* f64::signum: 1.0 for +0.0 and positive numbers, -1.0 for negative ones
Signum(v) == IF v < 0 THEN -1 ELSE 1
\* spacing of the representable values around magnitude a
RECURSIVE Ulp(_)
Ulp(a) == IF a < Binade THEN 1 ELSE 2 * Ulp(a \div 2)
\* magnitude a rounded to a multiple of the spacing u: to the nearest one,
\* ties to the even significand
RoundTo(a, u) ==
    IF 2 * (a % u) > u \/ (2 * (a % u) = u /\ (a \div u) % 2 = 1)
    THEN ((a \div u) + 1) * u
    ELSE (a \div u) * u
\* the f64 result of an addition or subtraction whose exact value is v
Fl(v) ==
    IF Abs(v) < Binade THEN v ELSE Signum(v) * RoundTo(Abs(v), Ulp(Abs(v)))
\* f64::floor and f64::ceil followed by `as i64`
Floor(v) == v \div U
\* ceil taken as floor + 1, which differs on whole numbers
Ceil_FloorPlusOne(v) == (v \div U) + 1
Ceil(v) == -((-v) \div U)
\* blocks (a rational n/d) to units
Blocks(n, d) == (n * U) \div d

-----------------------------------------------------------------------------
(* World store *)

\* edge length of a chunk in blocks
CHUNK_SIZE == 32

\* the block data a chunk can carry, by the solid cells of its local volume
Patterns == {"air", "stone", "floor", "wall", "room", "block", "fence", "far"}
\* local x of the one-block-thick wall of the "wall" data
WallLocalX == 3
\* x of the one-block-thick wall of the "far" data: the first whole cell whose
\* near face lies where coordinates are no longer spaced one unit apart
FarWallX == (Binade \div U) + 1

BlockOf(pattern, lx, ly, lz) ==
    CASE pattern = "air" -> 0
      [] pattern = "stone" -> 1
      [] pattern = "floor" -> IF ly = 0 THEN 1 ELSE 0
      [] pattern = "wall" -> IF lx = WallLocalX THEN 1 ELSE 0
      [] pattern = "room" -> IF lx = WallLocalX \/ ly = 0 THEN 1 ELSE 0
      [] pattern = "block" -> IF lx = 0 /\ ly = 0 /\ lz = 0 THEN 1 ELSE 0
      [] pattern = "fence" -> IF lz = WallLocalX THEN 1 ELSE 0
      [] pattern = "far" -> IF lx = FarWallX % CHUNK_SIZE THEN 1 ELSE 0

\* BlockPos::containing_chunk_pos: integer division flooring toward -infinity
containing_chunk_pos(i, j, k) ==
    <<i \div CHUNK_SIZE, j \div CHUNK_SIZE, k \div CHUNK_SIZE>>

has_chunk(world, c) == c \in DOMAIN world

\* the lookup answering for an absent chunk as if it were solid
get_data_AbsentSolid(world, i, j, k) ==
    LET c == containing_chunk_pos(i, j, k)
    IN IF has_chunk(world, c)
       THEN BlockOf(world[c], i % CHUNK_SIZE, j % CHUNK_SIZE, k % CHUNK_SIZE)
       ELSE 1

\* World::get_data / get_block: 0 when the containing chunk is absent
get_data(world, i, j, k) ==
    LET c == containing_chunk_pos(i, j, k)
    IN IF has_chunk(world, c)
       THEN BlockOf(world[c], i % CHUNK_SIZE, j % CHUNK_SIZE, k % CHUNK_SIZE)
       ELSE 0

-----------------------------------------------------------------------------
(* AABB *)

AABB_new(px, py, pz, sX, sY, sZ) ==
    [x |-> px, y |-> py, z |-> pz, size_x |-> sX, size_y |-> sY, size_z |-> sZ]

AABB_new_cube(px, py, pz, size) == AABB_new(px, py, pz, size, size, size)

\* the integer cells the box's bounding range covers
CellsOf(box) ==
    {<<i, j, k>> : i \in Floor(box.x)..(Ceil(Fl(box.x + box.size_x)) - 1),
                   j \in Floor(box.y)..(Ceil(Fl(box.y + box.size_y)) - 1),
                   k \in Floor(box.z)..(Ceil(Fl(box.z + box.size_z)) - 1)}

intersect_world(box, world) ==
    \E c \in CellsOf(box) : get_data(world, c[1], c[2], c[3]) # 0

Coord(box, axis) ==
    CASE axis = "x" -> box.x [] axis = "y" -> box.y [] axis = "z" -> box.z
SizeOn(box, axis) ==
    CASE axis = "x" -> box.size_x [] axis = "y" -> box.size_y [] axis = "z" -> box.size_z
\* self.<axis> += d
Shift(box, axis, d) ==
    [box EXCEPT ![axis] = Fl(@ + d)]

\* the whole delta taken as one sub-step
StepCount_Single(d, size) == IF d = 0 THEN 0 ELSE 1

\* the quotient rounded down and one added, which differs on whole quotients
StepCount_FloorPlusOne(d, size) == (Abs(d) \div size) + 1

\* (d.abs() / size).ceil() as u32
StepCount(d, size) == (Abs(d) + size - 1) \div size
\* d / (steps as f64); NaN (never used) when steps = 0
SubStep(d, steps) == IF steps = 0 THEN 0 ELSE Signum(d) * (Abs(d) \div steps)

\* the while loop with the two branches of its test exchanged
RECURSIVE BinarySearch_Swapped(_, _, _, _, _, _, _)
BinarySearch_Swapped(box, world, axis, sgn, min_d, max_d, tests) ==
    IF max_d - min_d > Tolerance
    THEN LET med == (min_d + max_d) \div 2
         IN CHOOSE r \in
                {IF intersect_world(probe, world)
                 THEN BinarySearch_Swapped(Shift(probe, axis, -(med * sgn)), world, axis, sgn,
                      med, max_d, tests + 1)
                 ELSE BinarySearch_Swapped(Shift(probe, axis, -(med * sgn)), world, axis, sgn,
                      min_d, med, tests + 1) :
                    probe \in {Shift(box, axis, med * sgn)}} : TRUE
    ELSE [min_d |-> min_d, max_d |-> max_d, tests |-> tests, box |-> box]

\* the while loop trying min_d + 0.01 instead of the middle of the interval
RECURSIVE BinarySearch_Linear(_, _, _, _, _, _, _)
BinarySearch_Linear(box, world, axis, sgn, min_d, max_d, tests) ==
    IF max_d - min_d > Tolerance
    THEN LET med == min_d + Tolerance
         IN CHOOSE r \in
                {IF intersect_world(probe, world)
                 THEN BinarySearch_Linear(Shift(probe, axis, -(med * sgn)), world, axis, sgn,
                      min_d, med, tests + 1)
                 ELSE BinarySearch_Linear(Shift(probe, axis, -(med * sgn)), world, axis, sgn,
                      med, max_d, tests + 1) :
                    probe \in {Shift(box, axis, med * sgn)}} : TRUE
    ELSE [min_d |-> min_d, max_d |-> max_d, tests |-> tests, box |-> box]

\* the while loop: [min_d |-> largest clear advance found, max_d |-> upper end
\* of the interval left, tests |-> intersect_world calls, box |-> the box as
\* the probes (self.x += med * sgn ... self.x -= med * sgn) leave it];
\* probe is the box after self.x += med * sgn, a value and not a formula
RECURSIVE BinarySearch(_, _, _, _, _, _, _)
BinarySearch(box, world, axis, sgn, min_d, max_d, tests) ==
    IF max_d - min_d > Tolerance
    THEN LET med == (min_d + max_d) \div 2
         IN CHOOSE r \in
                {IF intersect_world(probe, world)
                 THEN BinarySearch(Shift(probe, axis, -(med * sgn)), world, axis, sgn,
                      min_d, med, tests + 1)
                 ELSE BinarySearch(Shift(probe, axis, -(med * sgn)), world, axis, sgn,
                      med, max_d, tests + 1) :
                    probe \in {Shift(box, axis, med * sgn)}} : TRUE
    ELSE [min_d |-> min_d, max_d |-> max_d, tests |-> tests, box |-> box]

\* the whole of min_d applied after the search instead of half of it
Resolve_FullMinD(box, world, axis, dd) ==
    LET s == BinarySearch(box, world, axis, Signum(dd), 0, Abs(dd), 0)
    IN [box |-> Shift(s.box, axis, Signum(dd) * s.min_d),
        tests |-> s.tests, hit |-> TRUE, min_d |-> s.min_d, from |-> Coord(box, axis)]

\* what a colliding sub-step leaves, from the box with the sub-step undone:
\* the binary search, then half of min_d
Resolve(box, world, axis, dd) ==
    CHOOSE r \in
        {[box |-> Shift(s.box, axis, Signum(dd) * (s.min_d \div 2)),
          tests |-> s.tests, hit |-> TRUE, min_d |-> s.min_d, from |-> Coord(box, axis)] :
            s \in {BinarySearch(box, world, axis, Signum(dd), 0, Abs(dd), 0)}} : TRUE

\* the for loop over the sub-steps of one axis, from sub-step i
RECURSIVE SubSteps(_, _, _, _, _, _, _)
SubSteps(box, world, axis, dd, i, steps, tests) ==
    IF i >= steps
    THEN [box |-> box, tests |-> tests, hit |-> FALSE, min_d |-> 0, from |-> Coord(box, axis)]
    ELSE CHOOSE r \in
             {IF intersect_world(stepped, world)
              THEN [Resolve(Shift(stepped, axis, -dd), world, axis, dd)
                        EXCEPT !.tests = @ + tests + 1]
              ELSE SubSteps(stepped, world, axis, dd, i + 1, steps, tests + 1) :
                 stepped \in {Shift(box, axis, dd)}} : TRUE

\* one axis of move_check_collision
SweepAxis(box, world, axis, d) ==
    LET steps == StepCount(d, SizeOn(box, axis))
    IN SubSteps(box, world, axis, SubStep(d, steps), 0, steps, 0)

\* AABB::move_check_collision without its early return for an embedded box
move_check_collision_NoEscape(box, world, d) ==
    LET sx == SweepAxis(box, world, "x", d[1])
        sy == SweepAxis(sx.box, world, "y", d[2])
        sz == SweepAxis(sy.box, world, "z", d[3])
    IN [box |-> sz.box,
        res |-> <<Fl(sx.box.x - box.x), Fl(sy.box.y - sx.box.y), Fl(sz.box.z - sy.box.z)>>,
        tests |-> 1 + sx.tests + sy.tests + sz.tests,
        after_x |-> sx.box, after_y |-> sy.box,
        hit |-> <<sx.hit, sy.hit, sz.hit>>,
        from |-> <<sx.from, sy.from, sz.from>>,
        min_d |-> <<sx.min_d, sy.min_d, sz.min_d>>]

\* AABB::move_check_collision returning the requested delta on the swept path too
move_check_collision_ReturnsRequested(box, world, d) ==
    IF intersect_world(box, world)
    THEN [box |-> Shift(Shift(Shift(box, "x", d[1]), "y", d[2]), "z", d[3]),
          res |-> d, tests |-> 1,
          after_x |-> box, after_y |-> box, hit |-> <<FALSE, FALSE, FALSE>>,
          from |-> <<box.x, box.y, box.z>>, min_d |-> <<0, 0, 0>>]
    ELSE [move_check_collision_NoEscape(box, world, d) EXCEPT !.res = d]

\* AABB::move_check_collision sweeping y before x
move_check_collision_YFirst(box, world, d) ==
    IF intersect_world(box, world)
    THEN [box |-> Shift(Shift(Shift(box, "x", d[1]), "y", d[2]), "z", d[3]),
          res |-> d, tests |-> 1,
          after_x |-> box, after_y |-> box, hit |-> <<FALSE, FALSE, FALSE>>,
          from |-> <<box.x, box.y, box.z>>, min_d |-> <<0, 0, 0>>]
    ELSE LET sy == SweepAxis(box, world, "y", d[2])
             sx == SweepAxis(sy.box, world, "x", d[1])
             sz == SweepAxis(sx.box, world, "z", d[3])
         IN [box |-> sz.box,
             res |-> <<Fl(sx.box.x - box.x), Fl(sy.box.y - box.y), Fl(sz.box.z - box.z)>>,
             tests |-> 1 + sx.tests + sy.tests + sz.tests,
             after_x |-> sy.box, after_y |-> sx.box,
             hit |-> <<sx.hit, sy.hit, sz.hit>>,
             from |-> <<sx.from, sy.from, sz.from>>,
             min_d |-> <<sx.min_d, sy.min_d, sz.min_d>>]

\* AABB::move_check_collision: the box afterwards, the returned vector, and
\* what happened on the way (intersect_world calls, the box after the x and
\* the y sweep, and per axis: whether a sub-step collided, the coordinate the
\* colliding sub-step started from, the min_d its binary search ended with)
move_check_collision(box, world, d) ==
    IF intersect_world(box, world)
    THEN [box |-> Shift(Shift(Shift(box, "x", d[1]), "y", d[2]), "z", d[3]),
          res |-> d, tests |-> 1,
          after_x |-> box, after_y |-> box, hit |-> <<FALSE, FALSE, FALSE>>,
          from |-> <<box.x, box.y, box.z>>, min_d |-> <<0, 0, 0>>]
    ELSE LET sx == SweepAxis(box, world, "x", d[1])
             sy == SweepAxis(sx.box, world, "y", d[2])
             sz == SweepAxis(sy.box, world, "z", d[3])
         IN [box |-> sz.box,
             res |-> <<Fl(sx.box.x - box.x), Fl(sy.box.y - sx.box.y), Fl(sz.box.z - sy.box.z)>>,
             tests |-> 1 + sx.tests + sy.tests + sz.tests,
             after_x |-> sx.box, after_y |-> sy.box,
             hit |-> <<sx.hit, sy.hit, sz.hit>>,
             from |-> <<sx.from, sy.from, sz.from>>,
             min_d |-> <<sx.min_d, sy.min_d, sz.min_d>>]

-----------------------------------------------------------------------------
(* Player *)

\* PLAYER_SIDE = 0.8, PLAYER_HEIGHT = 1.8, CAMERA_OFFSET = [0.4, 1.6, 0.4]
PLAYER_SIDE == Blocks(8, 10)
PLAYER_HEIGHT == Blocks(18, 10)
CAMERA_OFFSET == <<Blocks(4, 10), Blocks(16, 10), Blocks(4, 10)>>

\* PhysicsPlayer::get_camera_position
get_camera_position(box) ==
    <<Fl(box.x + CAMERA_OFFSET[1]), Fl(box.y + CAMERA_OFFSET[2]),
      Fl(box.z + CAMERA_OFFSET[3])>>

-----------------------------------------------------------------------------
(* History records *)

NoCall == [made |-> FALSE]
\* the record of one move_check_collision call
CallRecord(box, world, d) ==
    LET r == move_check_collision(box, world, d)
    IN [made |-> TRUE, delta |-> d, before |-> box, world |-> world,
        res |-> r.res, tests |-> r.tests,
        after_x |-> r.after_x, after_y |-> r.after_y, hit |-> r.hit,
        from |-> r.from, min_d |-> r.min_d]

NoTick == [n |-> 0]

-----------------------------------------------------------------------------
(* One call of move_check_collision on a box in a small world *)

\* largest requested delta, in blocks
MaxDelta == 5
\* the chunk the scenes are built in
Origin == <<0, 0, 0>>

MoveWorlds ==
    {[c \in {Origin} |-> "wall"], [c \in {Origin} |-> "room"],
     [c \in {Origin} |-> "fence"], [c \in {} |-> "air"]}

\* distances between the box's leading face and the wall's near face
Gaps == {0, Blocks(1, 200), Blocks(3, 10), U, Blocks(3, 2)}
BoxSizes == {<<U, U, U>>, <<PLAYER_SIDE, PLAYER_HEIGHT, PLAYER_SIDE>>}
WallNear == WallLocalX * U
WallFar == (WallLocalX + 1) * U
\* clear of the wall on either side of it, or half-way into it
StartX(size) ==
    {WallNear - size - g : g \in Gaps} \cup {WallFar + g : g \in Gaps}
        \cup {WallNear - (size \div 2)}
StartY == {U, Blocks(13, 10), Blocks(21, 4)}
StartZ == {Blocks(5, 1)}

DeltaX == {-MaxDelta * U, -U, -Blocks(3, 10), 0, Blocks(3, 10), U, MaxDelta * U}
DeltaY == {-MaxDelta * U, -Blocks(1, 2), 0, Blocks(1, 2)}
DeltaZ == {-2 * U, 0, Blocks(2, 5)}

MoveInit ==
    /\ pc = "call"
    /\ queue = <<>>
    /\ chunks \in MoveWorlds
    /\ light = DOMAIN chunks
    /\ \E s \in BoxSizes : \E px \in StartX(s[1]) : \E py \in StartY : \E pz \in StartZ :
           aabb = AABB_new(px, py, pz, s[1], s[2], s[3])
    /\ baseline = 0
    /\ render_distance = 0
    /\ handshake = {}
    /\ received = 0
    /\ call = NoCall
    /\ tick = NoTick

\* aabb.move_check_collision(&world, (dx, dy, dz))
MoveCall ==
    /\ pc = "call"
    /\ \E dx \in DeltaX : \E dy \in DeltaY : \E dz \in DeltaZ :
           /\ call' = CallRecord(aabb, chunks, <<dx, dy, dz>>)
           /\ aabb' = move_check_collision(aabb, chunks, <<dx, dy, dz>>).box
    /\ pc' = "returned"
    /\ UNCHANGED <<queue, chunks, light, baseline, render_distance, handshake,
                   received, tick>>

MoveNext == MoveCall

MoveSpec == MoveInit /\ [][MoveNext]_vars

-----------------------------------------------------------------------------
(* Properties of one move_check_collision call *)

\* the box was clear of the world / embedded in it when the call was made
StartedClear == call.made /\ ~intersect_world(call.before, call.world)
StartedEmbedded == call.made /\ intersect_world(call.before, call.world)

HasWall(world) == Origin \in DOMAIN world /\ world[Origin] \in {"wall", "room"}

\* the call asked for a move along x only, from the low side of the wall,
\* that carries the box's leading face into or past the wall
IntoWallFromLow ==
    /\ StartedClear /\ HasWall(call.world)
    /\ call.delta[2] = 0 /\ call.delta[3] = 0 /\ call.delta[1] > 0
    /\ call.before.x + call.before.size_x <= WallNear
    /\ call.before.x + call.before.size_x + call.delta[1] > WallNear
\* the same from the high side
IntoWallFromHigh ==
    /\ StartedClear /\ HasWall(call.world)
    /\ call.delta[2] = 0 /\ call.delta[3] = 0 /\ call.delta[1] < 0
    /\ call.before.x >= WallFar
    /\ call.before.x + call.delta[1] < WallFar

\* distance left between the box's leading face and the wall's near face
GapToWall ==
    IF call.delta[1] > 0 THEN WallNear - (aabb.x + aabb.size_x) ELSE aabb.x - WallFar
\* distance that was free when the colliding sub-step began
GapBeforeHit ==
    IF call.delta[1] > 0 THEN WallNear - (call.from[1] + aabb.size_x)
    ELSE call.from[1] - WallFar

\* the spec's case: box of size 1, delta 5, wall one unit away
SpecWallCase ==
    /\ IntoWallFromLow
    /\ call.before.size_x = U
    /\ call.delta[1] = 5 * U
    /\ call.before.x + call.before.size_x = WallNear - U

C8_EmbeddedEscape ==
    StartedEmbedded =>
        /\ aabb.x = call.before.x + call.delta[1]
        /\ aabb.y = call.before.y + call.delta[2]
        /\ aabb.z = call.before.z + call.delta[3]
        /\ call.res = call.delta
        /\ call.tests = 1

C8_Witness ==
    /\ StartedEmbedded
    /\ call.delta[1] = Blocks(3, 10)
    /\ intersect_world(aabb, chunks)

-----------------------------------------------------------------------------
(* An actor above a flat floor, pulled down every tick *)

\* ticks of the end-to-end scenario
RestTicks == 100
\* top face of the floor: the floor data is solid at local y = 0
FloorTop == U
\* heights above the floor the actor starts at
RestGaps == {0, Blocks(1, 200), Blocks(1, 10), Blocks(3, 10)}
\* downward displacement gravity asks for in one tick: below the tolerance,
\* large, and longer than the box is high (two sub-steps)
GravityFall == {Blocks(1, 200), Blocks(1, 2), Blocks(5, 2)}

RestInit ==
    /\ pc = "rest"
    /\ queue = <<>>
    /\ chunks = [c \in {Origin} |-> "floor"]
    /\ light = DOMAIN chunks
    /\ \E g \in RestGaps :
           aabb = AABB_new(Blocks(5, 1), FloorTop + g, Blocks(5, 1),
                           PLAYER_SIDE, PLAYER_HEIGHT, PLAYER_SIDE)
    /\ baseline = 0
    /\ render_distance = 0
    /\ handshake = {}
    /\ received = 0
    /\ call = NoCall
    /\ tick = NoTick

\* one tick: gravity only, no horizontal movement, resolved against the world
RestTick ==
    /\ pc = "rest"
    /\ tick.n < RestTicks
    /\ \E g \in GravityFall :
           /\ call' = CallRecord(aabb, chunks, <<0, -g, 0>>)
           /\ aabb' = move_check_collision(aabb, chunks, <<0, -g, 0>>).box
    /\ tick' = [n |-> tick.n + 1]
    /\ UNCHANGED <<pc, queue, chunks, light, baseline, render_distance,
                   handshake, received>>

RestNext == RestTick

RestSpec == RestInit /\ [][RestNext]_vars

\* height of the box's bottom face above the floor
GapToFloor == aabb.y - FloorTop

\* C10: over 100 ticks of gravity the actor never overlaps a floor cell, its
\* height never increases, after the 100 ticks it is within the 0.01 margin
\* of the floor, and once within that margin it stays within it.
C10_RestsOnFloor ==
    /\ [](~intersect_world(aabb, chunks) /\ GapToFloor >= 0)
    /\ [](tick.n = RestTicks => GapToFloor <= Tolerance)
    /\ [][aabb'.y <= aabb.y]_vars
    /\ [][GapToFloor <= Tolerance => GapToFloor' <= Tolerance]_vars

\* the tick on which the falling actor comes to rest within the margin
C10_Witness ==
    /\ pc = "rest"
    /\ call.made
    /\ call.hit[2]
    /\ call.before.y - FloorTop > Tolerance
    /\ GapToFloor <= Tolerance
    /\ GapToFloor > 0

-----------------------------------------------------------------------------
(* World store, relevance policy and prediction engine as the driver uses them *)

\* World::set_chunk / set_light_chunk: upsert at the chunk's own position
set_chunk(world, chunk) ==
    [c \in DOMAIN world \cup {chunk.pos} |->
        IF c = chunk.pos THEN chunk.data ELSE world[c]]
\* the light chunk of a message thrown away
set_light_chunk_Dropped(lights, light_chunk) == lights
set_light_chunk(lights, light_chunk) == lights \cup {light_chunk.pos}
has_light_chunk(lights, c) == c \in lights

\* ChunkPos::offset over -1..=1 on each axis
Neighbours(c) ==
    {<<c[1] + i, c[2] + j, c[3] + k>> : i \in -1..1, j \in -1..1, k \in -1..1}

\* is_chunk_visible with the upper bound on x exclusive
is_chunk_visible_Exclusive(rd, player, c) ==
    /\ c[1] - player[1] < rd.x_max /\ player[1] - c[1] <= rd.x_min
    /\ c[2] - player[2] <= rd.y_max /\ player[2] - c[2] <= rd.y_min
    /\ c[3] - player[3] <= rd.z_max /\ player[3] - c[3] <= rd.z_min

\* RenderDistance::is_chunk_visible
is_chunk_visible(rd, player, c) ==
    /\ c[1] - player[1] <= rd.x_max /\ player[1] - c[1] <= rd.x_min
    /\ c[2] - player[2] <= rd.y_max /\ player[2] - c[2] <= rd.y_min
    /\ c[3] - player[3] <= rd.z_max /\ player[3] - c[3] <= rd.z_min

\* BlockPos::from(get_camera_position()).containing_chunk_pos()
PlayerChunk(box) ==
    LET p == get_camera_position(box)
    IN containing_chunk_pos(Floor(p[1]), Floor(p[2]), Floor(p[3]))

\* receive_server_update storing every snapshot, whatever its server_time
receive_server_update_Unconditional(sim, server_state) ==
    [last_server_state |-> server_state, player |-> server_state.physics_state]

\* ClientPhysicsSimulation::receive_server_update: the snapshot becomes the
\* baseline and the predicted player snaps to it, unless a strictly newer
\* baseline is already applied
receive_server_update(sim, server_state) ==
    IF server_state.server_time < sim.last_server_state.server_time
    THEN sim
    ELSE [last_server_state |-> server_state,
          player |-> server_state.physics_state]

\* ClientPhysicsSimulation::step_simulation: one tick of the predicted
\* player; the input is the displacement it asks for
step_simulation(sim, input, world) ==
    [sim EXCEPT !.player = move_check_collision(sim.player, world, input).box]

-----------------------------------------------------------------------------
(* The tick driver: SinglePlayer::new and SinglePlayer::update *)

\* events the server may have in flight to the client
MaxQueue == 1
\* largest server_time of a snapshot
MaxTime == 1
\* strides the player can be west of the spawn
MaxWalk == 1

\* PhysicsPlayer::default
DefaultAABB ==
    AABB_new(Blocks(146, 100), Blocks(526, 10), Blocks(185, 100),
             PLAYER_SIDE, PLAYER_HEIGHT, PLAYER_SIDE)
SpawnChunk == PlayerChunk(DefaultAABB)

\* the chunk coordinates the server sends: the spawn chunk, the one west of
\* it and the one below it
ChunkCoords ==
    {SpawnChunk, <<SpawnChunk[1] - 1, SpawnChunk[2], SpawnChunk[3]>>,
     <<SpawnChunk[1], SpawnChunk[2] - 1, SpawnChunk[3]>>}
ChunkData == {"air"}
\* settings.render_distance
RenderConfigs ==
    {[x_max |-> 0, x_min |-> 1, y_max |-> 0, y_min |-> 0, z_max |-> 0, z_min |-> 0]}
\* one tick's requested displacement: stand still, or a stride along x (from
\* the spawn a stride west crosses into the next chunk)
Stride == 2 * U
TickInputs == {<<0, 0, 0>>, <<Stride, 0, 0>>, <<-Stride, 0, 0>>}
\* player states the server reports
ServerPlayers == {DefaultAABB, Shift(DefaultAABB, "x", -Stride)}

ChunkMsg(c, d) ==
    [type |-> "Chunk", chunk |-> [pos |-> c, data |-> d], light_chunk |-> [pos |-> c]]
PhysicsMsg(t, b) ==
    [type |-> "UpdatePhysics", server_state |-> [server_time |-> t, physics_state |-> b]]
Plain(t) == [type |-> t]
\* what client.receive_event can return besides NoEvent
Events ==
    {ChunkMsg(c, d) : c \in ChunkCoords, d \in ChunkData}
        \cup {PhysicsMsg(t, b) : t \in 0..MaxTime, b \in ServerPlayers}
        \cup {Plain("GameData"), Plain("CurrentId"), Plain("Connected"),
              Plain("Disconnected")}

\* what is kept of the last event receive_event returned: whether it was an
\* UpdatePhysics message and, if so, its server_time and whether it was
\* handed to receive_server_update
NotSnapshot == [snapshot |-> FALSE]
Snapshot(m, handed) ==
    [snapshot |-> TRUE, server_time |-> m.server_state.server_time, handed |-> handed]
Returned(m) == IF m.type = "UpdatePhysics" THEN Snapshot(m, FALSE) ELSE NotSnapshot
\* the locals of update at its start
FreshTick ==
    [chunks_to_mesh |-> {}, msgs |-> 0, input |-> <<0, 0, 0>>, steps |-> 0,
     inserted |-> FALSE, applied |-> FALSE,
     player_chunk |-> SpawnChunk, loaded_before |-> {}, light_before |-> {},
     evaluations |-> <<>>]

Sim == [last_server_state |-> baseline, player |-> aabb]

Init ==
    /\ pc = "new"
    /\ queue = <<>>
    /\ chunks = [c \in {} |-> "air"]
    /\ light = {}
    /\ aabb = DefaultAABB
    /\ baseline = [server_time |-> 0, physics_state |-> DefaultAABB]
    /\ render_distance \in RenderConfigs
    /\ handshake = {}
    /\ received = NotSnapshot
    /\ call = NoCall
    /\ tick = FreshTick

\* the server puts one more event in flight
ServerSend ==
    /\ pc \notin {"panicked"}
    /\ Len(queue) < MaxQueue
    /\ \E e \in Events : queue' = Append(queue, e)
    /\ UNCHANGED <<pc, chunks, light, aabb, baseline, render_distance, handshake,
                   received, call, tick>>

\* new: one round of the loop that waits for the game data and the player id
HandshakeRecv ==
    /\ pc = "new"
    /\ handshake # {"data", "id"}
    /\ IF queue = <<>>
       THEN /\ received' = NotSnapshot
            /\ UNCHANGED <<queue, handshake>>
       ELSE /\ received' = Returned(Head(queue))
            /\ queue' = Tail(queue)
            /\ handshake' =
                   CASE Head(queue).type = "GameData" -> handshake \cup {"data"}
                     [] Head(queue).type = "CurrentId" -> handshake \cup {"id"}
                     [] OTHER -> handshake
    /\ UNCHANGED <<pc, chunks, light, aabb, baseline, render_distance, call, tick>>

\* new: both obtained, the state is built and returned
NewFinish ==
    /\ pc = "new"
    /\ handshake = {"data", "id"}
    /\ pc' = "constructed"
    /\ UNCHANGED <<queue, chunks, light, aabb, baseline, render_distance, handshake,
                   received, call, tick>>

\* update is called for the next frame
UpdateStart ==
    /\ pc \in {"constructed", "returned"}
    /\ pc' = "recv"
    /\ tick' = FreshTick
    /\ UNCHANGED <<queue, chunks, light, aabb, baseline, render_distance, handshake,
                   received, call>>

Receiving(type) == pc = "recv" /\ queue # <<>> /\ Head(queue).type = type
Counted == [tick EXCEPT !.msgs = IF @ < 2 THEN @ + 1 ELSE @]

\* ToClient::Chunk(chunk, light_chunk)
RecvChunk ==
    /\ Receiving("Chunk")
    /\ LET m == Head(queue)
       IN /\ chunks' = set_chunk(chunks, m.chunk)
          /\ light' = set_light_chunk(light, m.light_chunk)
          /\ tick' = [Counted EXCEPT !.chunks_to_mesh = @ \cup Neighbours(m.chunk.pos),
                                      !.inserted = TRUE]
          /\ received' = NotSnapshot
    /\ queue' = Tail(queue)
    /\ UNCHANGED <<pc, aabb, baseline, render_distance, handshake, call>>

\* ToClient::UpdatePhysics(server_state)
RecvPhysics ==
    /\ Receiving("UpdatePhysics")
    /\ LET m == Head(queue)
           sim == receive_server_update(Sim, m.server_state)
       IN /\ baseline' = sim.last_server_state
          /\ aabb' = sim.player
          /\ received' = Snapshot(m, TRUE)
    /\ queue' = Tail(queue)
    /\ tick' = [Counted EXCEPT !.applied = TRUE]
    /\ UNCHANGED <<pc, chunks, light, render_distance, handshake, call>>

\* ToClient::GameData, ToClient::CurrentId, ClientEvent::Connected
RecvIgnored ==
    /\ \E t \in {"GameData", "CurrentId", "Connected"} : Receiving(t)
    /\ received' = NotSnapshot
    /\ queue' = Tail(queue)
    /\ tick' = IF Head(queue).type = "Connected" THEN tick ELSE Counted
    /\ UNCHANGED <<pc, chunks, light, aabb, baseline, render_distance, handshake, call>>

\* ClientEvent::Disconnected => unimplemented!
RecvDisconnected ==
    /\ Receiving("Disconnected")
    /\ received' = NotSnapshot
    /\ queue' = Tail(queue)
    /\ pc' = "panicked"
    /\ UNCHANGED <<chunks, light, aabb, baseline, render_distance, handshake, call, tick>>

\* the loop's exit skipping the physics step of a frame in which no server
\* message arrived
RecvNoEvent_WaitsForServer ==
    /\ pc = "recv"
    /\ queue = <<>>
    /\ received' = NotSnapshot
    /\ pc' = IF tick.msgs = 0 THEN "mesh" ELSE "input"
    /\ UNCHANGED <<queue, chunks, light, aabb, baseline, render_distance, handshake,
                   call, tick>>

\* ClientEvent::NoEvent => break
RecvNoEvent ==
    /\ pc = "recv"
    /\ queue = <<>>
    /\ received' = NotSnapshot
    /\ pc' = "input"
    /\ UNCHANGED <<queue, chunks, light, aabb, baseline, render_distance, handshake,
                   call, tick>>

\* the frame's input is collected and sent, step_simulation is entered
StepBegin ==
    /\ pc = "input"
    /\ \E i \in TickInputs :
           /\ aabb.x + i[1] >= DefaultAABB.x - MaxWalk * Stride
           /\ aabb.x + i[1] <= DefaultAABB.x
           /\ tick' = [tick EXCEPT !.input = i]
    /\ pc' = "stepping"
    /\ UNCHANGED <<queue, chunks, light, aabb, baseline, render_distance, handshake,
                   received, call>>

\* step_simulation returns
StepEnd ==
    /\ pc = "stepping"
    /\ aabb' = step_simulation(Sim, tick.input, chunks).player
    /\ tick' = [tick EXCEPT !.steps = @ + 1, !.input = <<0, 0, 0>>]
    /\ pc' = "mesh"
    /\ UNCHANGED <<queue, chunks, light, baseline, render_distance, handshake,
                   received, call>>

\* player_chunk is taken; every queued chunk that is loaded goes to meshing,
\* asserting that its light chunk is loaded too
SendToMeshing ==
    /\ pc = "mesh"
    /\ tick' = [tick EXCEPT !.player_chunk = PlayerChunk(aabb), !.chunks_to_mesh = {}]
    /\ pc' = IF \A c \in tick.chunks_to_mesh :
                    has_chunk(chunks, c) => has_light_chunk(light, c)
             THEN "evict" ELSE "panicked"
    /\ UNCHANGED <<queue, chunks, light, aabb, baseline, render_distance, handshake,
                   received, call>>

\* HashMap::retain over the entries still to visit: the closure is called on
\* each entry; when it answers false the light chunk is removed (by the
\* closure) and the chunk (by retain).  evaluations counts the closure's calls.
RECURSIVE RetainVisible(_, _, _, _)
RetainVisible(todo, player_chunk, rd, st) ==
    IF todo = {} THEN st
    ELSE LET c == CHOOSE x \in todo : TRUE
             counted == [st EXCEPT !.evaluations =
                            [x \in DOMAIN @ \cup {c} |->
                                IF x = c THEN (IF c \in DOMAIN @ THEN @[c] ELSE 0) + 1
                                ELSE @[x]]]
         IN IF is_chunk_visible(rd, player_chunk, c)
            THEN RetainVisible(todo \ {c}, player_chunk, rd, counted)
            ELSE RetainVisible(todo \ {c}, player_chunk, rd,
                     [counted EXCEPT
                         !.chunks = [x \in DOMAIN @ \ {c} |-> @[x]],
                         !.light = @ \ {c}])

\* the eviction pass from player_chunk; update returns
Evict(player_chunk) ==
    /\ pc = "evict"
    /\ LET st == RetainVisible(DOMAIN chunks, player_chunk, render_distance,
                     [chunks |-> chunks, light |-> light, evaluations |-> <<>>])
       IN /\ chunks' = st.chunks
          /\ light' = st.light
          /\ tick' = [tick EXCEPT !.loaded_before = DOMAIN chunks,
                                  !.light_before = light,
                                  !.evaluations = st.evaluations]
    /\ pc' = "returned"
    /\ UNCHANGED <<queue, aabb, baseline, render_distance, handshake, received, call>>

\* the eviction pass around the chunk of the server's last reported player
\* instead of the predicted camera
DropFarChunks_ServerPlayerChunk == Evict(PlayerChunk(baseline.physics_state))

\* the eviction pass with a closure that forgets light.remove(..)
DropFarChunks_KeepsLight ==
    /\ pc = "evict"
    /\ LET keep == {c \in DOMAIN chunks :
                       is_chunk_visible(render_distance, tick.player_chunk, c)}
       IN chunks' = [c \in keep |-> chunks[c]]
    /\ tick' = [tick EXCEPT !.loaded_before = DOMAIN chunks, !.light_before = light,
                            !.evaluations = [c \in DOMAIN chunks |-> 1]]
    /\ pc' = "returned"
    /\ UNCHANGED <<queue, light, aabb, baseline, render_distance, handshake,
                   received, call>>

\* the eviction pass run where the frame's input is collected, before
\* step_simulation, as well as in its own place
DropFarChunks_BeforeStep ==
    \/ Evict(tick.player_chunk)
    \/ /\ pc = "input"
       /\ LET keep == {c \in DOMAIN chunks :
                          is_chunk_visible(render_distance, PlayerChunk(aabb), c)}
          IN /\ chunks' = [c \in keep |-> chunks[c]]
             /\ light' = light \ (DOMAIN chunks \ keep)
       /\ UNCHANGED <<pc, queue, aabb, baseline, render_distance, handshake,
                      received, call, tick>>

\* chunks.retain(|chunk_pos, _| ..): a chunk that is not visible from
\* player_chunk is removed, and its light chunk with it; update returns
DropFarChunks == Evict(tick.player_chunk)

Next ==
    \/ ServerSend
    \/ HandshakeRecv
    \/ NewFinish
    \/ UpdateStart
    \/ RecvChunk
    \/ RecvPhysics
    \/ RecvIgnored
    \/ RecvDisconnected
    \/ RecvNoEvent
    \/ StepBegin
    \/ StepEnd
    \/ SendToMeshing
    \/ DropFarChunks

Spec == Init /\ [][Next]_vars

-----------------------------------------------------------------------------
(* Properties of the tick driver *)

\* C1: at every point between two handlers of the driver, a coordinate has a
\* light chunk exactly when it has a chunk.
C1_ChunkLightPaired ==
    \A c \in ChunkCoords \cup DOMAIN chunks \cup light :
        has_chunk(chunks, c) <=> has_light_chunk(light, c)

\* an update whose eviction pass removed one pair and kept another
C1_Witness ==
    /\ pc = "returned"
    /\ DOMAIN chunks # {}
    /\ tick.loaded_before \ DOMAIN chunks # {}
    /\ light = DOMAIN chunks

\* an update has run to its end
UpdateReturned == pc = "returned"

\* C2: the eviction pass calls is_chunk_visible once for every chunk loaded
\* before it, around the chunk of the camera as this tick's step_simulation
\* left it; the chunks loaded afterwards are those loaded before for which it
\* answered true, and the light chunks removed are those of the chunks removed.
C2_EvictionPass ==
    UpdateReturned =>
        /\ tick.evaluations = [c \in tick.loaded_before |-> 1]
        /\ tick.player_chunk = PlayerChunk(aabb)
        /\ DOMAIN chunks =
               {c \in tick.loaded_before :
                   is_chunk_visible(render_distance, PlayerChunk(aabb), c)}
        /\ tick.light_before \ light = tick.loaded_before \ DOMAIN chunks
        /\ light \subseteq tick.light_before

\* the player crossed into the next chunk this tick and the pass removed the
\* chunk it left while the server still reports it at the spawn
C2_Witness ==
    /\ UpdateReturned
    /\ PlayerChunk(aabb) # SpawnChunk
    /\ PlayerChunk(baseline.physics_state) = SpawnChunk
    /\ SpawnChunk \in tick.loaded_before
    /\ PlayerChunk(aabb) \in DOMAIN chunks

\* this step takes a snapshot older than the baseline from the queue
RecvStale ==
    /\ Receiving("UpdatePhysics")
    /\ Head(queue).server_state.server_time < baseline.server_time
    /\ queue' = Tail(queue)

\* C3: a snapshot older than the baseline leaves the baseline and the
\* predicted player as they are, and the baseline's server_time never
\* decreases.
C3_NeverRegresses ==
    [][/\ RecvStale => baseline' = baseline /\ aabb' = aabb
       /\ baseline'.server_time >= baseline.server_time]_vars

\* an older snapshot has just been handed over and ignored
C3_Witness ==
    /\ received.snapshot
    /\ received.handed
    /\ received.server_time < baseline.server_time

\* C4: every UpdatePhysics message receive_event returns is handed to
\* receive_server_update.
C4_EverySnapshotHanded == received.snapshot => received.handed

\* this step puts a chunk or a light chunk in the world / takes one out
Inserts ==
    \/ \E c \in DOMAIN chunks' : c \notin DOMAIN chunks \/ chunks'[c] # chunks[c]
    \/ light' \ light # {}
Evicts == DOMAIN chunks \ DOMAIN chunks' # {} \/ light \ light' # {}

\* C5: in one update every insertion and every snapshot application comes
\* before step_simulation, every eviction after it has returned, and nothing
\* touches the world or the baseline while step_simulation runs.
C5_TickOrdering ==
    [][/\ Inserts \/ baseline' # baseline => pc = "recv" /\ tick.steps = 0
       /\ Evicts => pc = "evict" /\ tick.steps = 1
       /\ pc = "stepping" =>
              chunks' = chunks /\ light' = light /\ baseline' = baseline]_vars

\* an update that inserted a chunk, applied a snapshot, stepped and evicted
C5_Witness ==
    /\ UpdateReturned
    /\ tick.inserted
    /\ tick.applied
    /\ tick.steps = 1
    /\ tick.loaded_before \ DOMAIN chunks # {}

\* C6: an update that leaves its message loop calls step_simulation exactly
\* once, whatever arrived, and the call never waits: it can be made as soon
\* as the loop has ended, whatever is or is not in the queue.
C6_StepsOncePerTick ==
    /\ pc \in {"recv", "input", "stepping"} => tick.steps = 0
    /\ pc \in {"mesh", "evict", "returned"} => tick.steps = 1
    /\ pc = "input" => ENABLED StepBegin

\* an update that handled several server messages and stepped once
C6_Witness ==
    /\ UpdateReturned
    /\ tick.msgs = 2
    /\ tick.steps = 1

\* an update in which no server message arrived and that stepped once
C6_WitnessQuiet ==
    /\ UpdateReturned
    /\ tick.msgs = 0
    /\ tick.steps = 1

-----------------------------------------------------------------------------
(* Box queries: AABB::intersect and AABB::intersect_point *)

\* AABB::intersect with the first comparison strict: boxes whose faces touch
\* on the high x side count as intersecting
intersect_TouchingCounts(self, other) ==
    ~ \/ other.x > self.x + self.size_x
      \/ other.x + other.size_x <= self.x
      \/ other.y >= self.y + self.size_y
      \/ other.y + other.size_y <= self.y
      \/ other.z >= self.z + self.size_z
      \/ other.z + other.size_z <= self.z

\* AABB::intersect
intersect(self, other) ==
    ~ \/ other.x >= self.x + self.size_x
      \/ other.x + other.size_x <= self.x
      \/ other.y >= self.y + self.size_y
      \/ other.y + other.size_y <= self.y
      \/ other.z >= self.z + self.size_z
      \/ other.z + other.size_z <= self.z

\* AABB::intersect_point with the upper bound on y exclusive
intersect_point_OpenTop(self, p) ==
    /\ p[1] >= self.x /\ p[1] <= self.x + self.size_x
    /\ p[2] >= self.y /\ p[2] < self.y + self.size_y
    /\ p[3] >= self.z /\ p[3] <= self.z + self.size_z

\* AABB::intersect_point
intersect_point(self, p) ==
    /\ p[1] >= self.x /\ p[1] <= self.x + self.size_x
    /\ p[2] >= self.y /\ p[2] <= self.y + self.size_y
    /\ p[3] >= self.z /\ p[3] <= self.z + self.size_z

-----------------------------------------------------------------------------
(* Raycast: PhysicsPlayer::get_pointed_at *)

\* The ray is marched in a finer fixed point: one block is RayU units, so the
\* 1e-5 nudge past a boundary is Res units.  A direction is an integer vector
\* v of integer length n; its normalised components are v[a] / n.
RayU == 1000 * U
\* 1e-5 (player.rs:84)
Eps == RayU \div 100000
\* PLAYER_REACH = 10.0
PLAYER_REACH == 10 * RayU
\* let mut curr_min = 1e9: farther than any distance the model marches
CurrMinInit == 2000000000

\* the table of the six axis directions; face f is dirs[f + 1]
dirs ==
    <<<<-1, 0, 0>>, <<1, 0, 0>>, <<0, -1, 0>>, <<0, 1, 0>>, <<0, 0, -1>>, <<0, 0, 1>>>>

Dot(a, b) == a[1] * b[1] + a[2] * b[2] + a[3] * b[3]
\* division of f64 results kept in fixed point: truncation toward zero
TruncDiv(a, b) == IF a >= 0 THEN a \div b ELSE -((-a) \div b)

\* Vector3::normalize
normalize(dir) ==
    [v |-> dir,
     n |-> CHOOSE n \in 0..(Abs(dir[1]) + Abs(dir[2]) + Abs(dir[3])) :
               n * n = Dot(dir, dir)]

\* pos.x.floor(), pos.x.ceil(), .. in ray units
FloorR(v) == (v \div RayU) * RayU
CeilR(v) == -(((-v) \div RayU) * RayU)
targets(pos) ==
    <<FloorR(pos[1]), CeilR(pos[1]), FloorR(pos[2]), CeilR(pos[2]),
      FloorR(pos[3]), CeilR(pos[3])>>

\* BlockPos::from(Vector3<f64>): the cell that contains the point
BlockPosFrom(pos) == <<pos[1] \div RayU, pos[2] \div RayU, pos[3] \div RayU>>
\* World::get_block
get_block(world, b) == get_data(world, b[1], b[2], b[3])

\* dir.dot(&dirs[i]) times the direction's length
effective_movement(dir, f) == Dot(dir.v, dirs[f + 1])
\* effective_movement > 1e-6
Moving(dir, f) == effective_movement(dir, f) * 1000000 > dir.n
\* (targets[i].abs() - pos.dot(&dirs[i]).abs()).abs()
dir_offset(pos, f) == Abs(Abs(targets(pos)[f + 1]) - Abs(Dot(pos, dirs[f + 1])))
\* dir_offset / effective_movement
PlaneDist(pos, dir, f) == (dir_offset(pos, f) * dir.n) \div effective_movement(dir, f)

\* for i in 0..6: the smallest distance and the first plane that has it
RECURSIVE ScanPlanes(_, _, _, _, _)
ScanPlanes(pos, dir, i, curr_min, face) ==
    IF i = 6
    THEN [curr_min |-> curr_min, face |-> face]
    ELSE IF Moving(dir, i) /\ curr_min > PlaneDist(pos, dir, i)
         THEN ScanPlanes(pos, dir, i + 1, PlaneDist(pos, dir, i), i)
         ELSE ScanPlanes(pos, dir, i + 1, curr_min, face)

\* face ^ 1
Xor1(f) == IF f % 2 = 0 THEN f + 1 ELSE f - 1

\* pos += curr_min * dir with curr_min not yet nudged by 1e-5
Advance_NoNudge(pos, dir, c) ==
    <<pos[1] + TruncDiv((c - Eps) * dir.v[1], dir.n),
      pos[2] + TruncDiv((c - Eps) * dir.v[2], dir.n),
      pos[3] + TruncDiv((c - Eps) * dir.v[3], dir.n)>>

\* pos += curr_min * dir
Advance(pos, dir, c) ==
    <<pos[1] + TruncDiv(c * dir.v[1], dir.n),
      pos[2] + TruncDiv(c * dir.v[2], dir.n),
      pos[3] + TruncDiv(c * dir.v[3], dir.n)>>

\* what a cast returns and what happened on the way: Some((block, face)) or
\* None, the distance advanced, the steps taken, where the ray stopped and
\* with what budget left, and the distance to the next plane seen last
CastResult(some, block, face, advanced, steps, pos, max_dist, curr_min) ==
    [some |-> some, block |-> block, face |-> face, advanced |-> advanced,
     steps |-> steps, pos |-> pos, max_dist |-> max_dist, curr_min |-> curr_min]

\* the loop with the budget tested after the step instead of before it
RECURSIVE March_CheckAfter(_, _, _, _, _, _, _)
March_CheckAfter(pos, dir, max_dist, world, was_inside, advanced, steps) ==
    LET s == ScanPlanes(pos, dir, 0, CurrMinInit, 0)
        c == s.curr_min + Eps
        p == Advance(pos, dir, c)
    IN IF was_inside
       THEN CastResult(TRUE, BlockPosFrom(pos), Xor1(s.face), advanced, steps,
                       pos, max_dist, s.curr_min)
       ELSE IF s.curr_min = CurrMinInit \/ max_dist < 0
            THEN CastResult(FALSE, <<0, 0, 0>>, 0, advanced, steps, pos,
                            max_dist, s.curr_min)
            ELSE IF get_block(world, BlockPosFrom(p)) # 0
                 THEN CastResult(TRUE, BlockPosFrom(p), s.face, advanced + c,
                                 steps + 1, p, max_dist - c, s.curr_min)
                 ELSE March_CheckAfter(p, dir, max_dist - c, world, FALSE,
                                       advanced + c, steps + 1)

\* the loop of get_pointed_at, from position pos with budget max_dist
RECURSIVE March(_, _, _, _, _, _, _)
March(pos, dir, max_dist, world, was_inside, advanced, steps) ==
    LET s == ScanPlanes(pos, dir, 0, CurrMinInit, 0)
        c == s.curr_min + Eps
        p == Advance(pos, dir, c)
    IN IF was_inside
       THEN CastResult(TRUE, BlockPosFrom(pos), Xor1(s.face), advanced, steps,
                       pos, max_dist, s.curr_min)
       ELSE IF s.curr_min > max_dist
            THEN CastResult(FALSE, <<0, 0, 0>>, 0, advanced, steps, pos,
                            max_dist, s.curr_min)
            ELSE IF get_block(world, BlockPosFrom(p)) # 0
                 THEN CastResult(TRUE, BlockPosFrom(p), s.face, advanced + c,
                                 steps + 1, p, max_dist - c, s.curr_min)
                 ELSE March(p, dir, max_dist - c, world, FALSE,
                            advanced + c, steps + 1)

\* the camera position in ray units
CameraPoint(box) ==
    <<get_camera_position(box)[1] * 1000, get_camera_position(box)[2] * 1000,
      get_camera_position(box)[3] * 1000>>

\* get_pointed_at keeping the scanned face when the camera is inside a block
get_pointed_at_NoFlip(box, dir, max_dist, world) ==
    LET pos == CameraPoint(box)
        r == March(pos, normalize(dir), max_dist, world,
                   get_block(world, BlockPosFrom(pos)) # 0, 0, 0)
    IN IF get_block(world, BlockPosFrom(pos)) # 0
       THEN [r EXCEPT !.face = Xor1(@)]
       ELSE r

\* PhysicsPlayer::get_pointed_at
get_pointed_at(box, dir, max_dist, world) ==
    LET pos == CameraPoint(box)
    IN March(pos, normalize(dir), max_dist, world,
             get_block(world, BlockPosFrom(pos)) # 0, 0, 0)

-----------------------------------------------------------------------------
(* Read-only queries on a box in a small world: AABB::intersect,            *)
(* AABB::intersect_point, AABB::intersect_world, World::get_data and        *)
(* PhysicsPlayer::get_pointed_at, with chunks.retain unloading chunks       *)
(* between them                                                              *)

West == <<-1, 0, 0>>
QueryWorlds ==
    {[c \in {Origin} |-> "wall"], [c \in {Origin} |-> "block"],
     [c \in {Origin, West} |-> "stone"], [c \in {} |-> "air"]}

\* box positions: either side of the origin and of the wall, flush with
\* them, straddling them
QueryX ==
    {-U, -Blocks(1, 2), 0, Blocks(1, 2), U, 2 * U, Blocks(5, 2), 3 * U,
     Blocks(7, 2), 4 * U}
QueryY == {-U, 0}
QuerySizes == {U, Blocks(1, 2)}
QueryBoxes ==
    {AABB_new_cube(px, py, 0, s) : px \in QueryX, py \in QueryY, s \in QuerySizes}

\* camera positions a ray is cast from, in blocks
Cameras ==
    {<<Blocks(1, 2), Blocks(1, 2), 5 * U>>, <<Blocks(1, 2), Blocks(1, 2), Blocks(1, 2)>>,
     <<Blocks(1, 2), Blocks(1, 2), 12 * U>>, <<Blocks(1, 4), Blocks(3, 4), Blocks(1, 2)>>,
     <<-Blocks(5, 2), Blocks(1, 2), Blocks(1, 2)>>, <<Blocks(1, 2), Blocks(7, 2), Blocks(1, 4)>>}
\* the player whose camera is at cam
PlayerAt(cam) ==
    AABB_new(cam[1] - CAMERA_OFFSET[1], cam[2] - CAMERA_OFFSET[2],
             cam[3] - CAMERA_OFFSET[3], PLAYER_SIDE, PLAYER_HEIGHT, PLAYER_SIDE)

\* directions a ray is cast in, not all of unit length
QueryDirs ==
    {<<1, 0, 0>>, <<-1, 0, 0>>, <<0, 1, 0>>, <<0, -1, 0>>, <<0, 0, 1>>,
     <<0, 0, -1>>, <<0, 0, -3>>, <<3, 0, -4>>, <<-3, 4, 0>>, <<4, -3, 0>>,
     <<0, -4, -3>>}
QueryDists == {0, RayU \div 2, 4 * RayU, PLAYER_REACH}

\* the other box of an intersect call: self's sizes or half of them, moved
\* by nothing, half a size or a whole size on each axis
Offsets(size) == {-size, -(size \div 2), 0, size \div 2, size}
Others(box) ==
    {AABB_new(box.x + ox, box.y + oy, box.z + oz,
              box.size_x \div k, box.size_y \div k, box.size_z \div k) :
        ox \in Offsets(box.size_x), oy \in Offsets(box.size_y),
        oz \in Offsets(box.size_z), k \in {1, 2}}
\* the points of an intersect_point call: just outside, on and inside each face
Along(min, size) == {min - 1, min, min + (size \div 2), min + size, min + size + 1}
Points(box) ==
    {<<px, py, pz>> : px \in Along(box.x, box.size_x),
                      py \in Along(box.y, box.size_y),
                      pz \in Along(box.z, box.size_z)}
\* the cells of a get_data call
LookupCells ==
    {<<i, j, k>> : i \in {-CHUNK_SIZE - 1, -CHUNK_SIZE, -1, 0, WallLocalX,
                          CHUNK_SIZE - 1, CHUNK_SIZE},
                   j \in {-1, 0}, k \in {0, 5}}

QueryInit ==
    /\ pc = "query"
    /\ queue = <<>>
    /\ chunks \in QueryWorlds
    /\ light = DOMAIN chunks
    /\ aabb \in QueryBoxes \cup {PlayerAt(cam) : cam \in Cameras}
    /\ baseline = 0
    /\ render_distance = 0
    /\ handshake = {}
    /\ received = 0
    /\ call = NoCall
    /\ tick = [evicted |-> {}]

QueryReturn ==
    /\ pc' = "returned"
    /\ UNCHANGED <<queue, chunks, light, aabb, baseline, render_distance,
                   handshake, received, tick>>

\* aabb.intersect(&other), and other.intersect(&aabb)
IntersectCall ==
    /\ pc = "query"
    /\ \E other \in Others(aabb) :
           call' = [made |-> TRUE, op |-> "intersect", other |-> other,
                    result |-> intersect(aabb, other),
                    swapped |-> intersect(other, aabb)]
    /\ QueryReturn

\* aabb.intersect_point(p)
PointCall ==
    /\ pc = "query"
    /\ \E p \in Points(aabb) :
           call' = [made |-> TRUE, op |-> "intersect_point", p |-> p,
                    result |-> intersect_point(aabb, p)]
    /\ QueryReturn

\* aabb.intersect_world(&world)
WorldCall ==
    /\ pc = "query"
    /\ call' = [made |-> TRUE, op |-> "intersect_world", cells |-> CellsOf(aabb),
                result |-> intersect_world(aabb, chunks)]
    /\ QueryReturn

\* world.get_data(i, j, k)
LookupCall ==
    /\ pc = "query"
    /\ \E c \in LookupCells :
           call' = [made |-> TRUE, op |-> "get_data", cell |-> c,
                    result |-> get_data(chunks, c[1], c[2], c[3])]
    /\ QueryReturn

\* player.get_pointed_at(dir, max_dist, &world)
CastCall ==
    /\ pc = "query"
    /\ \E dir \in QueryDirs : \E max_dist \in QueryDists :
           call' = [made |-> TRUE, op |-> "get_pointed_at", dir |-> dir,
                    max_dist |-> max_dist,
                    inside |-> get_block(chunks, BlockPosFrom(CameraPoint(aabb))) # 0,
                    result |-> get_pointed_at(aabb, dir, max_dist, chunks)]
    /\ QueryReturn

\* chunks.retain dropping one chunk, and its light chunk with it
Unload ==
    /\ pc = "query"
    /\ \E c \in DOMAIN chunks :
           /\ chunks' = [d \in DOMAIN chunks \ {c} |-> chunks[d]]
           /\ light' = light \ {c}
           /\ tick' = [evicted |-> tick.evicted \cup {c}]
    /\ UNCHANGED <<pc, queue, aabb, baseline, render_distance, handshake,
                   received, call>>

QueryNext ==
    \/ IntersectCall
    \/ PointCall
    \/ WorldCall
    \/ LookupCall
    \/ CastCall
    \/ Unload

QuerySpec == QueryInit /\ [][QueryNext]_vars

Asked(op) == call.made /\ call.op = op

-----------------------------------------------------------------------------
(* Properties of the box queries *)

Axes == {"x", "y", "z"}
\* on this axis a's minimum is at or beyond b's maximum
Beyond(a, b, axis) == Coord(a, axis) >= Coord(b, axis) + SizeOn(b, axis)
Separated(a, b) == \E axis \in Axes : Beyond(a, b, axis) \/ Beyond(b, a, axis)
\* the boxes touch: separated, but on no axis by more than nothing
Touching(a, b) ==
    /\ Separated(a, b)
    /\ \A axis \in Axes :
           /\ Coord(a, axis) <= Coord(b, axis) + SizeOn(b, axis)
           /\ Coord(b, axis) <= Coord(a, axis) + SizeOn(a, axis)

\* C11: intersect is false exactly when on some axis one box's minimum is at
\* or beyond the other's maximum, so boxes that only touch do not intersect,
\* and the answer is the same with the two boxes exchanged.
C11_IntersectSeparation ==
    Asked("intersect") =>
        /\ call.result = ~Separated(aabb, call.other)
        /\ Touching(aabb, call.other) => ~call.result
        /\ call.swapped = call.result

\* two boxes sharing exactly one face, on the high x side of the first
C11_Witness ==
    /\ Asked("intersect")
    /\ call.other.x = aabb.x + aabb.size_x
    /\ call.other.y = aabb.y /\ call.other.z = aabb.z
    /\ call.other.size_y = aabb.size_y
    /\ ~call.result /\ ~call.swapped

\* the cells whose unit cube shares interior with the box, axis by axis
CellRange == (Floor(-CHUNK_SIZE * U) - 1)..(CHUNK_SIZE + 1)
Overlapping(min, size) == {i \in CellRange : (i + 1) * U > min /\ i * U < min + size}
CellsOverlapping(box) ==
    {<<i, j, k>> : i \in Overlapping(box.x, box.size_x),
                   j \in Overlapping(box.y, box.size_y),
                   k \in Overlapping(box.z, box.size_z)}

\* C12: intersect_world is true exactly when a cell c with
\* floor(min) <= c < ceil(min + size) on every axis holds a non-zero block;
\* those are the cells it reads, and for a box whose face lies on a cell
\* boundary they do not include the cell on the far side of that face.
C12_CellsTested ==
    Asked("intersect_world") =>
        /\ call.cells = CellsOverlapping(aabb)
        /\ call.result =
               (\E c \in CellsOverlapping(aabb) : get_data(chunks, c[1], c[2], c[3]) # 0)
        /\ \A c \in call.cells :
               /\ c[1] * U < aabb.x + aabb.size_x /\ (c[1] + 1) * U > aabb.x

\* a box flush against the near face of the wall, and not in it
C12_Witness ==
    /\ Asked("intersect_world")
    /\ HasWall(chunks)
    /\ aabb.x + aabb.size_x = WallNear
    /\ aabb.y >= 0
    /\ ~call.result

\* C13: intersect_point is true exactly when min <= p <= min + size on every
\* axis, the six faces included.
C13_PointInclusive ==
    Asked("intersect_point") =>
        call.result =
            /\ call.p[1] \in aabb.x..(aabb.x + aabb.size_x)
            /\ call.p[2] \in aabb.y..(aabb.y + aabb.size_y)
            /\ call.p[3] \in aabb.z..(aabb.z + aabb.size_z)

\* a point on the top face, at the corner of the high x and low z faces
C13_Witness ==
    /\ Asked("intersect_point")
    /\ call.p = <<aabb.x + aabb.size_x, aabb.y + aabb.size_y, aabb.z>>
    /\ call.result

Loaded(c) == has_chunk(chunks, containing_chunk_pos(c[1], c[2], c[3]))

\* C14: a cell whose chunk is not loaded, never inserted or unloaded again,
\* reads as block 0; a box all of whose cells are in unloaded chunks does not
\* intersect the world, and a cast never returns a block of an unloaded chunk.
C14_AbsentIsEmpty ==
    /\ Asked("get_data") /\ ~Loaded(call.cell) => call.result = 0
    /\ Asked("intersect_world") /\ (\A c \in call.cells : ~Loaded(c)) => ~call.result
    /\ Asked("get_pointed_at") /\ call.result.some => Loaded(call.result.block)
    /\ Asked("get_pointed_at") /\ chunks = << >> => ~call.result.some

\* a cell of a chunk of stone that has been unloaded
C14_Witness ==
    /\ Asked("get_data")
    /\ containing_chunk_pos(call.cell[1], call.cell[2], call.cell[3]) \in tick.evicted
    /\ call.result = 0

-----------------------------------------------------------------------------
(* The relevance policy on its own: is_chunk_visible for every setting *)

\* largest render distance of the settings, in chunks
MaxRender == 1
\* let (x1, x2, y1, y2, z1, z2) = settings.render_distance
RenderDistance(settings) ==
    [x_max |-> settings[1], x_min |-> settings[2], y_max |-> settings[3],
     y_min |-> settings[4], z_max |-> settings[5], z_min |-> settings[6]]
Settings == [1..6 -> 0..MaxRender]
\* the player's chunk: the spawn chunk, or one across the origin from it
VisPlayers == {SpawnChunk, <<-1, -1, 0>>}
\* candidates up to one chunk beyond the largest bound on each axis
Candidates(player) ==
    {<<player[1] + i, player[2] + j, player[3] + k>> :
        i \in (-MaxRender - 1)..(MaxRender + 1),
        j \in (-MaxRender - 1)..(MaxRender + 1),
        k \in (-MaxRender - 1)..(MaxRender + 1)}

VisInit ==
    /\ pc = "query"
    /\ queue = <<>>
    /\ chunks = << >>
    /\ light = {}
    /\ aabb = DefaultAABB
    /\ baseline = 0
    /\ render_distance \in {RenderDistance(st) : st \in Settings}
    /\ handshake = {}
    /\ received = 0
    /\ call = NoCall
    /\ tick = NoTick

\* render_distance.is_chunk_visible(player_chunk, chunk_pos)
VisCall ==
    /\ pc = "query"
    /\ \E player \in VisPlayers : \E c \in Candidates(player) :
           call' = [made |-> TRUE, op |-> "is_chunk_visible", player |-> player,
                    candidate |-> c,
                    result |-> is_chunk_visible(render_distance, player, c)]
    /\ pc' = "returned"
    /\ UNCHANGED <<queue, chunks, light, aabb, baseline, render_distance,
                   handshake, received, tick>>

VisNext == VisCall

VisSpec == VisInit /\ [][VisNext]_vars

\* candidate minus player on one axis
OffsetOn(a) == call.candidate[a] - call.player[a]

\* C15: a candidate is visible exactly when its offset from the player's
\* chunk lies in [-min, +max] on each axis, each of the six bounds on its own:
\* at a bound it is visible, one chunk beyond any bound it is not.
C15_VisibleWithinBounds ==
    Asked("is_chunk_visible") =>
        /\ call.result =
               /\ OffsetOn(1) \in (-render_distance.x_min)..render_distance.x_max
               /\ OffsetOn(2) \in (-render_distance.y_min)..render_distance.y_max
               /\ OffsetOn(3) \in (-render_distance.z_min)..render_distance.z_max
        /\ \/ OffsetOn(1) = render_distance.x_max + 1
           \/ OffsetOn(1) = -render_distance.x_min - 1
           \/ OffsetOn(2) = render_distance.y_max + 1
           \/ OffsetOn(2) = -render_distance.y_min - 1
           \/ OffsetOn(3) = render_distance.z_max + 1
           \/ OffsetOn(3) = -render_distance.z_min - 1
           => ~call.result

\* a candidate at the upper x bound and the lower y bound of an asymmetric
\* setting
C15_Witness ==
    /\ Asked("is_chunk_visible")
    /\ render_distance.x_max > render_distance.x_min
    /\ render_distance.y_min > render_distance.y_max
    /\ OffsetOn(1) = render_distance.x_max
    /\ OffsetOn(2) = -render_distance.y_min
    /\ OffsetOn(3) = 0
    /\ call.result

-----------------------------------------------------------------------------
(* Properties of the raycast *)

Cam == CameraPoint(aabb)
Dir == normalize(call.dir)

\* the spec's known geometry: the only solid block is (0,0,0), the camera is
\* at (0.5, 0.5, 5) and looks along -z with a reach of 10
KnownGeometry ==
    /\ Asked("get_pointed_at")
    /\ chunks = [c \in {Origin} |-> "block"]
    /\ aabb = PlayerAt(<<Blocks(1, 2), Blocks(1, 2), 5 * U>>)
    /\ call.dir = <<0, 0, -1>>
    /\ call.max_dist = PLAYER_REACH

\* C16: against the known geometry the cast returns block (0,0,0) and the
\* index of the +z face, 5 in the table -x, +x, -y, +y, -z, +z.
C16_EntersThroughPlusZ ==
    KnownGeometry =>
        /\ call.result.some
        /\ call.result.block = <<0, 0, 0>>
        /\ call.result.face = 5

\* plane f is reached no later than plane g along the ray (both ahead of it)
NoLater(f, g) ==
    dir_offset(Cam, f) * effective_movement(Dir, g)
        <= dir_offset(Cam, g) * effective_movement(Dir, f)
\* the planes ahead of the ray, and those of them reached first
Ahead == {f \in 0..5 : Moving(Dir, f)}
Nearest == {f \in Ahead : \A g \in Ahead : NoLater(f, g)}

\* C17: a cast whose camera is inside a solid block returns that block
\* without advancing, whatever max_dist is, with the face opposite (index
\* XOR 1) to the plane reached first along the ray.
C17_InsideReturnsOpposite ==
    Asked("get_pointed_at") /\ call.inside =>
        /\ call.result.some
        /\ call.result.block = BlockPosFrom(Cam)
        /\ call.result.advanced = 0 /\ call.result.steps = 0
        /\ call.result.pos = Cam
        /\ \E f \in Nearest : call.result.face = Xor1(f)
        /\ \A m \in QueryDists :
               LET r == get_pointed_at(aabb, call.dir, m, chunks)
               IN r.block = call.result.block /\ r.face = call.result.face

\* inside the block of the known geometry with no reach at all, looking
\* down and along -z: the plane below comes first, the face returned is +y
C17_Witness ==
    /\ Asked("get_pointed_at") /\ call.inside
    /\ chunks = [c \in {Origin} |-> "block"]
    /\ call.dir = <<0, -4, -3>>
    /\ call.max_dist = 0
    /\ call.result.face = 3

\* C18: from a camera outside any solid block the cast returns None exactly
\* when the next plane is farther than the budget left; the distance advanced
\* never exceeds max_dist by more than the 1e-5 nudge, the plane crossed last
\* was within max_dist, and a block returned is solid and holds the point the
\* ray stopped at, itself no farther from the camera than the distance
\* advanced.
C18_WithinReach ==
    Asked("get_pointed_at") /\ ~call.inside =>
        LET r == call.result
        IN /\ r.max_dist = call.max_dist - r.advanced
           /\ r.advanced <= call.max_dist + Eps
           /\ ~r.some => r.curr_min > r.max_dist
           /\ r.some => /\ r.steps > 0
                        /\ get_block(chunks, r.block) # 0
                        /\ r.block = BlockPosFrom(r.pos)
           /\ \A a \in 1..3 : Abs(r.pos[a] - Cam[a]) <= r.advanced

\* the known geometry from two blocks farther away: the reach ends one block
\* short of the solid block and the cast returns None, having advanced the
\* whole reach and the nudge
C18_Witness ==
    /\ Asked("get_pointed_at") /\ ~call.inside
    /\ chunks = [c \in {Origin} |-> "block"]
    /\ aabb = PlayerAt(<<Blocks(1, 2), Blocks(1, 2), 12 * U>>)
    /\ call.dir = <<0, 0, -1>>
    /\ call.max_dist = PLAYER_REACH
    /\ ~call.result.some
    /\ call.result.advanced > call.max_dist

-----------------------------------------------------------------------------
(* The binary search of one move_check_collision call, axis by axis *)

AxisName == <<"x", "y", "z">>
\* the box when the sweep of axis i began and when it ended
BoxBefore(i) ==
    CASE i = 1 -> call.before [] i = 2 -> call.after_x [] i = 3 -> call.after_y
BoxAfter(i) ==
    CASE i = 1 -> call.after_x [] i = 2 -> call.after_y [] i = 3 -> aabb
\* the sub-steps of axis i and the length of one
Steps(i) == StepCount(call.delta[i], SizeOn(call.before, AxisName[i]))
SubLen(i) == Abs(SubStep(call.delta[i], Steps(i)))
\* the box when the colliding sub-step of axis i began, that sub-step undone
HitBox(i) ==
    Shift(BoxBefore(i), AxisName[i], call.from[i] - Coord(BoxBefore(i), AxisName[i]))
\* the search axis i made from there
Search(i) ==
    BinarySearch(HitBox(i), call.world, AxisName[i], Signum(call.delta[i]), 0,
                 SubLen(i), 0)
\* the sub-steps of axis i that did not collide
ClearSteps(i) == Abs(call.from[i] - Coord(BoxBefore(i), AxisName[i])) \div SubLen(i)
\* intersect_world calls of axis i
TestsOn(i) ==
    IF call.hit[i] THEN ClearSteps(i) + 1 + Search(i).tests ELSE Steps(i)
\* no advance at all is free: the smallest one already collides
Flush(i) ==
    intersect_world(Shift(HitBox(i), AxisName[i], Signum(call.delta[i])), call.world)

\* halvings that bring a gap to the tolerance, rounding the half up / down
RECURSIVE HalvingsUp(_)
HalvingsUp(gap) == IF gap > Tolerance THEN 1 + HalvingsUp((gap + 1) \div 2) ELSE 0
RECURSIVE HalvingsDown(_)
HalvingsDown(gap) == IF gap > Tolerance THEN 1 + HalvingsDown(gap \div 2) ELSE 0

\* C19: on every axis that collides the search makes as many iterations as
\* halving the sub-step length down to 0.01 takes, ends with an interval no
\* wider than 0.01 and min_d within the sub-step; the call makes a bounded
\* number of intersect_world tests; a search in which every advance
\* collides ends with min_d = 0 and leaves the box where the sub-step began.
C19_SearchTerminates ==
    StartedClear =>
        /\ \A i \in 1..3 : call.hit[i] =>
               /\ Search(i).tests \in HalvingsDown(SubLen(i))..HalvingsUp(SubLen(i))
               /\ Search(i).max_d - Search(i).min_d <= Tolerance
               /\ Search(i).min_d = call.min_d[i]
               /\ call.min_d[i] \in 0..SubLen(i)
               /\ Flush(i) => /\ call.min_d[i] = 0
                              /\ Coord(BoxAfter(i), AxisName[i]) = call.from[i]
        /\ call.tests = 1 + TestsOn(1) + TestsOn(2) + TestsOn(3)
        /\ call.tests <= 1 + Steps(1) + HalvingsUp(SubLen(1))
                           + Steps(2) + HalvingsUp(SubLen(2))
                           + Steps(3) + HalvingsUp(SubLen(3))

\* a call whose x search finds nothing free and whose y search finds some
C19_Witness ==
    /\ StartedClear
    /\ call.hit[1] /\ Flush(1) /\ call.min_d[1] = 0 /\ Search(1).tests > 1
    /\ call.hit[2] /\ call.min_d[2] > 0

\* C20: an axis stopped by a collision leaves the box a strictly positive
\* gap from the obstacle on that axis (the smallest further advance is still
\* free), and asking for the same movement again does not put the box inside
\* a solid cell.
C20_PositiveGap ==
    StartedClear =>
        /\ \A i \in 1..3 : call.hit[i] =>
               ~intersect_world(Shift(BoxAfter(i), AxisName[i], Signum(call.delta[i])),
                                call.world)
        /\ ~intersect_world(move_check_collision(aabb, chunks, call.delta).box, chunks)

-----------------------------------------------------------------------------
(* One call of move_check_collision on a box next to a wall that stands    *)
(* where sums of coordinates are rounded                                   *)

\* the chunk holding the wall, and the wall's near face
FarChunk == <<FarWallX \div CHUNK_SIZE, 0, 0>>
FarNear == FarWallX * U
FarWorlds == {[c \in {FarChunk} |-> "far"]}
\* edge lengths of the cubes, and their distances from the wall's near face
FarSizes == {Blocks(1, 2), U, Blocks(11, 10), Blocks(3, 2)}
FarGaps == {0, Blocks(1, 200), Blocks(3, 10)}
\* largest requested delta, in thousandths of a block
MaxPush == 1000

PushInit ==
    /\ pc = "call"
    /\ queue = <<>>
    /\ chunks \in FarWorlds
    /\ light = DOMAIN chunks
    /\ \E s \in FarSizes : \E g \in FarGaps :
           aabb = AABB_new_cube(Fl(FarNear - s - g), U, Blocks(5, 1), s)
    /\ baseline = 0
    /\ render_distance = 0
    /\ handshake = {}
    /\ received = 0
    /\ call = NoCall
    /\ tick = NoTick

\* aabb.move_check_collision(&world, (dx, 0.0, 0.0))
PushCall ==
    /\ pc = "call"
    /\ \E n \in 1..MaxPush : \E sgn \in {-1, 1} :
           LET d == <<sgn * Blocks(n, 1000), 0, 0>>
           IN /\ call' = CallRecord(aabb, chunks, d)
              /\ aabb' = move_check_collision(aabb, chunks, d).box
    /\ pc' = "returned"
    /\ UNCHANGED <<queue, chunks, light, baseline, render_distance, handshake,
                   received, tick>>

PushNext == PushCall

PushSpec == PushInit /\ [][PushNext]_vars

\* C24: a box that is clear of the world when move_check_collision is called
\* is clear of it after the x sweep, after the y sweep and when the call
\* returns
C24_NoPenetration ==
    StartedClear =>
        /\ ~intersect_world(call.after_x, call.world)
        /\ ~intersect_world(call.after_y, call.world)
        /\ ~intersect_world(aabb, call.world)

-----------------------------------------------------------------------------
(* The order of the axes and the sub-steps of one move_check_collision call *)

\* the box of axis i after k of its sub-steps, had none of them collided
AfterSubSteps(i, k) ==
    Shift(BoxBefore(i), AxisName[i], k * SubStep(call.delta[i], Steps(i)))
\* some sub-step of axis i, taken from where the earlier axes left the box,
\* ends inside the world
Blocked(i) ==
    \E k \in 1..Steps(i) : intersect_world(AfterSubSteps(i, k), call.world)

\* C21: from a clear start the x sweep changes x only, the y sweep then
\* changes y only and the z sweep z only; each axis collides exactly when one
\* of its sub-steps, taken from the box as the earlier axes left it, ends
\* inside the world, and an axis none of whose sub-steps collides moves its
\* whole delta whatever happened on the other axes.
C21_AxisOrder ==
    StartedClear =>
        /\ call.after_x = [call.before EXCEPT !.x = call.after_x.x]
        /\ call.after_y = [call.after_x EXCEPT !.y = call.after_y.y]
        /\ aabb = [call.after_y EXCEPT !.z = aabb.z]
        /\ \A i \in 1..3 :
               /\ call.hit[i] <=> Blocked(i)
               /\ ~call.hit[i] => BoxAfter(i) = AfterSubSteps(i, Steps(i))

\* the x sweep was stopped by the wall and the y sweep, made at the stopped
\* x, by the floor, while the z sweep moved its whole delta
C21_Witness ==
    /\ StartedClear
    /\ call.hit[1] /\ call.hit[2] /\ ~call.hit[3]
    /\ call.after_x.x # call.before.x
    /\ call.after_y.y # call.before.y
    /\ aabb.z = call.before.z + call.delta[3] /\ call.delta[3] # 0

\* C22: on each axis the number of sub-steps is the least n with
\* n * size >= |d|, so one sub-step is no longer than the box on that axis;
\* the sub-steps add up to d (short of it by less than one unit of the model
\* per sub-step, the division being truncated), an axis that does not
\* collide is moved by exactly that sum with one collision test per
\* sub-step, and an axis with d = 0 makes no sub-step and keeps its
\* coordinate.
C22_SubSteps ==
    StartedClear =>
        \A i \in 1..3 :
            LET d == call.delta[i]
                size == SizeOn(call.before, AxisName[i])
                moved == Coord(BoxAfter(i), AxisName[i]) - Coord(BoxBefore(i), AxisName[i])
            IN /\ Steps(i) * size >= Abs(d)
               /\ d # 0 => Steps(i) >= 1 /\ (Steps(i) - 1) * size < Abs(d)
               /\ SubLen(i) <= size
               /\ Steps(i) * SubLen(i) <= Abs(d)
               /\ Abs(d) - Steps(i) * SubLen(i) < Steps(i) \/ d = 0
               /\ ~call.hit[i] =>
                      /\ moved = Signum(d) * Steps(i) * SubLen(i)
                      /\ TestsOn(i) = Steps(i)
               /\ d = 0 => Steps(i) = 0 /\ moved = 0 /\ ~call.hit[i]
               /\ call.tests = 1 + TestsOn(1) + TestsOn(2) + TestsOn(3)

\* the player's box asked to move 5 blocks along x in free space: 7 sub-steps
\* whose lengths do not add up to 5 blocks exactly, and no move along y
C22_Witness ==
    /\ StartedClear
    /\ call.before.size_x = PLAYER_SIDE
    /\ call.delta[1] = -(MaxDelta * U)
    /\ call.delta[2] = 0
    /\ ~call.hit[1]
    /\ Steps(1) * PLAYER_SIDE > Abs(call.delta[1])
    /\ Steps(1) * SubLen(1) < Abs(call.delta[1])
    /\ aabb.x = call.before.x - Steps(1) * SubLen(1)
    /\ aabb.y = call.before.y

-----------------------------------------------------------------------------
(* The assertion of update *)

\* C25: every position queued for meshing that has a chunk has a light
\* chunk, so the assertion of update holds when it is evaluated; the queue
\* holds all 27 neighbours of chunks received in this tick, which are loaded
\* with their light chunks.
C25_AssertionHolds ==
    /\ \A c \in tick.chunks_to_mesh :
           has_chunk(chunks, c) => has_light_chunk(light, c)
    /\ \A c \in tick.chunks_to_mesh :
           \E p \in Neighbours(c) :
               /\ Neighbours(p) \subseteq tick.chunks_to_mesh
               /\ has_chunk(chunks, p) /\ has_light_chunk(light, p)

\* the assertion is about to be evaluated on the neighbours of a chunk
\* received in this tick: two of them are loaded, and one that the server
\* sends is not
C25_Witness ==
    /\ pc = "mesh"
    /\ Cardinality(tick.chunks_to_mesh) = 27
    /\ Cardinality(tick.chunks_to_mesh \cap DOMAIN chunks) = 2
    /\ \E c \in tick.chunks_to_mesh \cap ChunkCoords : ~has_chunk(chunks, c)

-----------------------------------------------------------------------------
(* The iterations of one get_pointed_at call *)

\* where the ray is after k iterations that did not return
RECURSIVE RayAt(_)
RayAt(k) ==
    IF k = 0 THEN Cam
    ELSE LET p == RayAt(k - 1)
         IN Advance(p, Dir, ScanPlanes(p, Dir, 0, CurrMinInit, 0).curr_min + Eps)
\* the plane iteration k + 1 finds nearest, and the distance to it
NextPlane(k) == ScanPlanes(RayAt(k), Dir, 0, CurrMinInit, 0)
\* C26: a cast from outside any solid block ends after at most
\* max_dist / 1e-5 + 1 steps: every step takes at least the 1e-5 nudge from
\* the budget, and leaves the ray strictly beyond the plane it went for, so
\* that the next plane found is at a distance above zero.
C26_CastTerminates ==
    Asked("get_pointed_at") /\ ~call.inside =>
        LET r == call.result
        IN /\ r.steps * Eps <= r.advanced
           /\ r.advanced = call.max_dist - r.max_dist
           /\ r.max_dist >= -Eps
           /\ r.steps <= (call.max_dist \div Eps) + 1
           /\ r.pos = RayAt(r.steps)
           /\ \A k \in 1..r.steps :
                  LET f == NextPlane(k - 1).face
                      a == (f \div 2) + 1
                      plane == targets(RayAt(k - 1))[f + 1]
                  IN /\ dirs[f + 1][a] * (RayAt(k)[a] - plane) > 0
                     /\ NextPlane(k).curr_min > 0

\* a ray parallel to the z axis from a camera whose z is a whole number: the
\* first plane is at distance zero, the first step is the nudge alone, and
\* the cast goes on to reach the block four cells further
C26_Witness ==
    /\ KnownGeometry
    /\ NextPlane(0).curr_min = 0
    /\ RayAt(1)[3] = Cam[3] - Eps
    /\ NextPlane(1).curr_min > 0
    /\ call.result.steps > 1
    /\ call.result.some

\* C27: with no chunk loaded intersect_world is false before and after the
\* call, no sub-step of any axis collides, and each axis is moved by, and
\* returns, the sum of its sub-steps: the requested delta (short of it by
\* less than one unit of the model per sub-step where d / steps is
\* truncated), and exactly zero for a zero delta.
C27_NoChunkLoaded ==
    call.made /\ DOMAIN call.world = {} =>
        /\ ~intersect_world(call.before, call.world)
        /\ ~intersect_world(aabb, call.world)
        /\ call.tests = 1 + Steps(1) + Steps(2) + Steps(3)
        /\ \A i \in 1..3 :
               LET d == call.delta[i]
                   moved == Coord(aabb, AxisName[i]) - Coord(call.before, AxisName[i])
               IN /\ ~call.hit[i]
                  /\ call.res[i] = moved
                  /\ moved = Signum(d) * Steps(i) * SubLen(i)
                  /\ Abs(d - moved) < Steps(i) \/ d = moved
                  /\ (d = 0 \/ Abs(d) % Steps(i) = 0) => moved = d

\* the unit cube in the empty world asked to move 5 blocks along x, nothing
\* along y and 0.4 along z
C27_Witness ==
    /\ call.made /\ DOMAIN call.world = {}
    /\ call.before.size_x = U
    /\ call.delta = <<MaxDelta * U, 0, Blocks(2, 5)>>
    /\ call.res = call.delta
    /\ aabb = AABB_new_cube(call.before.x + MaxDelta * U, call.before.y,
                             call.before.z + Blocks(2, 5), U)
====
